---- MODULE Spec2Model ----
(***************************************************************************)
(* Model of handball_expected_goals.py: the HTTP fetch helper, the         *)
(* schedule and team-statistics retrievers, the match enrichment loop with *)
(* its lookup cache, the CSV/JSON exporters and main.                      *)
(*                                                                         *)
(* Python values are modelled as follows.                                  *)
(*   Optional[T]   : <<>> is None, <<x>> is the value x.                   *)
(*   JSON scalar   : [t |-> "absent" | "null" | "num" | "str", n |-> Int]  *)
(*                   ("absent": the key is not in the enclosing object;    *)
(*                   "str": a non-empty string, hence truthy).             *)
(*   float         : an exact fraction [n |-> Int, d |-> Int], d > 0, in   *)
(*                   lowest terms.  The bounds keep every value away from  *)
(*                   the rounding ties of the two-decimal format, where    *)
(*                   binary floating point and exact fractions could part. *)
(***************************************************************************)
EXTENDS Integers, Sequences, FiniteSets, TLC

VARIABLES
    pc,           \* position of the run: which operation comes next
    hasDate,      \* main: sys.argv carries the date argument
    fetchArgs,    \* get_json: the retries / sleep arguments of the call
    fetchRun,     \* get_json: <<>> before the call, <<run>> after it
    schedBody,    \* upstream: <<body>> the schedule endpoint answers with
    sched,        \* get_scheduled_events: <<>> or <<[raised, matches]>>
    statsBody,    \* upstream: <<body>> of one statistics answer
    teamStats,    \* get_team_stats: <<>> or <<[raised, stats]>>
    matches,      \* compute_expected_goals_for_matches: its input list
    idx,          \* number of matches the enrichment loop has processed
    stats_cache,  \* (team id, season id) -> Optional[TeamStats]
    results,      \* list of MatchWithExpectedGoals built so far
    calls,        \* ghost: key -> [requests, attempts] issued for it
    schedHttp,    \* ghost: HTTP attempts made for the schedule
    csvFile,      \* <<>> or <<rows>>: the CSV file, header row first
    jsonFile,     \* <<>> or <<objects>>: the JSON file
    written,      \* order in which the output files were written
    exitStatus    \* <<>> while running, <<code>> after sys.exit / return

vars == <<pc, hasDate, fetchArgs, fetchRun, schedBody, sched, statsBody,
          teamStats, matches, idx, stats_cache, results, calls, schedHttp,
          csvFile, jsonFile, written, exitStatus>>

---------------------------------------------------------------------------
(* Bounds of the model. *)
MaxRetries == 4      \* get_json is called with retries in 0..MaxRetries
MaxField == 2        \* a statistics field holds a number in 0..MaxField
MaxGoals == 2        \* upstream goals scored, 0..MaxGoals
MaxPlayed == 2       \* upstream matches played, -1..MaxPlayed
MaxEvents == 2       \* schedule entries in one response
MaxMatches == 2      \* matches handed to the enrichment loop

(* Program constants. *)
DefaultRetries == 3  \* get_json(retries=3)
DefaultSleep == 5    \* get_json(sleep=0.5), in tenths of a second

---------------------------------------------------------------------------
(* Python values. *)
None == <<>>
Some(x) == <<x>>
IsNone(o) == o = <<>>
Val(o) == o[1]

Absent == [t |-> "absent", n |-> 0]
Null == [t |-> "null", n |-> 0]
Num(k) == [t |-> "num", n |-> k]
Str == [t |-> "str", n |-> 0]

\* bool(v) of a JSON scalar; dict.get turns an absent key into None.
Truthy(v) ==
    \/ v.t = "str"
    \/ v.t = "num" /\ v.n # 0

\* a or b or c or 0 (lines 101-106 and 107-112): the first truthy operand,
\* else the trailing literal 0.
OrChain(fields) ==
    IF \E i \in 1..Len(fields) : Truthy(fields[i])
    THEN fields[CHOOSE i \in 1..Len(fields) :
                    /\ Truthy(fields[i])
                    /\ \A j \in 1..(i - 1) : ~Truthy(fields[j])]
    ELSE Num(0)

---------------------------------------------------------------------------
(* get_json, lines 50-59. *)
FailKinds == {"status", "neterr"}
GetEv(out) == [ev |-> "get", out |-> out, d |-> 0]
SleepEv(d) == [ev |-> "sleep", out |-> "", d |-> d]

\* The executions of the loop from iteration `attempt` on.  A run is the
\* sequence of requests.get and time.sleep calls made and the value returned.
RECURSIVE GetJsonLoop(_, _, _, _)
GetJsonLoop(attempt, retries, sleep, bodies) ==
    IF attempt >= retries
    THEN {[log |-> <<>>, result |-> None]}
    ELSE {[log |-> <<GetEv("ok")>>, result |-> Some(b)] : b \in bodies}
         \cup
         {[log |-> <<GetEv(k), SleepEv(sleep)>> \o r.log, result |-> r.result] :
             k \in FailKinds,
             r \in GetJsonLoop(attempt + 1, retries, sleep, bodies)}

\* Mutant: the loop bound off by one, range(retries + 1).
get_json_ExtraAttempt(retries, sleep, bodies) ==
    GetJsonLoop(0, retries + 1, sleep, bodies)

get_json(retries, sleep, bodies) == GetJsonLoop(0, retries, sleep, bodies)

Attempts(log) == Cardinality({i \in 1..Len(log) : log[i].ev = "get"})
AllFailed(log) == \A i \in 1..Len(log) : log[i].ev = "get" => log[i].out # "ok"


---------------------------------------------------------------------------
(* Identifiers and names. *)
TeamIds == {1, 2}
SeasonIds == {1, 2}

GivenName(id) == [t |-> "str", n |-> id]       \* a name sent by the upstream
DefaultTeamName(id) == [t |-> "team", n |-> id] \* f"Team {team_id}"
UnknownTournament == [t |-> "unknown", n |-> 0] \* "Unknown"

---------------------------------------------------------------------------
(* get_team_stats, lines 93-122. *)
GoalFields == <<"goalsScored", "goalsFor", "scored">>
PlayedFields == <<"matchesPlayed", "played", "games">>
StatFieldNames == {"goalsScored", "goalsFor", "scored",
                   "matchesPlayed", "played", "games"}

\* stats.get(name): None when the key is absent.
DictGet(rec, name) == IF rec[name].t = "absent" THEN Null ELSE rec[name]

ChainOf(rec, names) == [i \in 1..Len(names) |-> DictGet(rec, names[i])]

\* lines 101-106
ResolveGoalsScored(stats) == OrChain(ChainOf(stats, GoalFields))

\* lines 107-112
ResolveMatchesPlayed(stats) == OrChain(ChainOf(stats, PlayedFields))

NoFields == [f \in StatFieldNames |-> Absent]

\* data.get("statistics", {}) : an absent key reads as the empty record.
StatisticsOf(body) ==
    IF body.statistics.t = "absent" THEN NoFields ELSE body.statistics.f

\* data.get("team", {}).get("name", f"Team {team_id}")
TeamNameOf(body, team_id) ==
    IF body.team.t = "absent" \/ body.team.name.t = "absent"
    THEN DefaultTeamName(team_id)
    ELSE body.team.name

\* `not data` (line 96): None and the falsy bodies.
Falsy(data) == IsNone(data) \/ Val(data).shape = "empty"

\* The extraction raises inside the try block (caught at line 121): .get on
\* something that is not a record.
ExtractionFails(body) ==
    \/ body.shape = "nondict"
    \/ body.statistics.t \in {"null", "nonrec"}
    \/ body.team.t \in {"null", "nonrec"}

TeamStats(team_id, name, season_id, goals_scored, matches_played) ==
    [team_id |-> team_id, name |-> name, season_id |-> season_id,
     goals_scored |-> goals_scored, matches_played |-> matches_played]

\* Lines 96-122 applied to the value get_json returned.
ParseTeamStats(team_id, season_id, data) ==
    IF Falsy(data) THEN None
    ELSE IF ExtractionFails(Val(data)) THEN None
    ELSE Some(TeamStats(team_id,
                        TeamNameOf(Val(data), team_id),
                        season_id,
                        ResolveGoalsScored(StatisticsOf(Val(data))),
                        ResolveMatchesPlayed(StatisticsOf(Val(data)))))

\* Every outcome of one get_team_stats call against an upstream that answers
\* with one of `bodies`: the HTTP attempts made and the value returned.
get_team_stats(team_id, season_id, bodies) ==
    {[attempts |-> Attempts(r.log),
      stats |-> ParseTeamStats(team_id, season_id, r.result)] :
        r \in get_json(DefaultRetries, DefaultSleep, bodies)}

---------------------------------------------------------------------------
(* get_scheduled_events, lines 62-91. *)
(* A schedule entry is [shape, id, startTimestamp, homeTeam, awayTeam,     *)
(* tournament, season]; shape "nonrec" is an entry that is not a record,   *)
(* and a sub-record carries t in "absent" | "null" | "nonrec" | "obj".     *)

MatchInfo(event_id, start_timestamp, home_team_id, home_team_name, away_team_id, away_team_name, tournament_name, season_id) ==
    [event_id |-> event_id, start_timestamp |-> start_timestamp,
     home_team_id |-> home_team_id, home_team_name |-> home_team_name,
     away_team_id |-> away_team_id, away_team_name |-> away_team_name,
     tournament_name |-> tournament_name, season_id |-> season_id]

\* x.get(...) or x[...] applied to something that is not a record raises
\* AttributeError / TypeError, which `except KeyError` does not catch.
NotARecord(sub) == sub.t \in {"null", "nonrec"}

\* ev[team]["id"], ev[team]["name"] raise KeyError when a key is absent.
TeamKeyError(team) ==
    team.t = "absent" \/ team.id.t = "absent" \/ team.name.t = "absent"

\* ev.get("tournament", {}).get("name", "Unknown")
TournamentNameOf(ev) ==
    IF ev.tournament.t = "absent" \/ ev.tournament.name.t = "absent"
    THEN UnknownTournament
    ELSE ev.tournament.name

\* ev.get("startTimestamp", 0)
StartTimestampOf(ev) ==
    IF ev.startTimestamp.t = "absent" THEN 0 ELSE ev.startTimestamp.n

\* One iteration of the loop at lines 69-89, in evaluation order.
\* kind "skip": continue (line 74 or 89); "raise": the exception leaves the
\* function; "ok": the MatchInfo is appended.
ParseEvent(ev) ==
    IF ev.shape = "nonrec" \/ NotARecord(ev.season)
        THEN [kind |-> "raise", match |-> None]             \* line 72
    ELSE IF ev.season.t = "absent" \/ ev.season.id.t \in {"absent", "null"}
        THEN [kind |-> "skip", match |-> None]              \* lines 73-74
    ELSE IF ev.id.t = "absent"
        THEN [kind |-> "skip", match |-> None]              \* line 78
    ELSE IF NotARecord(ev.homeTeam)
        THEN [kind |-> "raise", match |-> None]             \* line 80
    ELSE IF TeamKeyError(ev.homeTeam)
        THEN [kind |-> "skip", match |-> None]              \* lines 80-81
    ELSE IF NotARecord(ev.awayTeam)
        THEN [kind |-> "raise", match |-> None]             \* line 82
    ELSE IF TeamKeyError(ev.awayTeam)
        THEN [kind |-> "skip", match |-> None]              \* lines 82-83
    ELSE IF NotARecord(ev.tournament)
        THEN [kind |-> "raise", match |-> None]             \* line 84
    ELSE [kind |-> "ok",
          match |-> Some(MatchInfo(ev.id.n, StartTimestampOf(ev),
                                   ev.homeTeam.id.n, ev.homeTeam.name,
                                   ev.awayTeam.id.n, ev.awayTeam.name,
                                   TournamentNameOf(ev), ev.season.id.n))]

\* The loop over data["events"] from entry i on, `acc` the matches so far.
RECURSIVE ParseEvents(_, _, _)
ParseEvents(events, i, acc) ==
    IF i > Len(events) THEN [raised |-> FALSE, matches |-> acc]
    ELSE LET p == ParseEvent(events[i])
         IN  IF p.kind = "raise" THEN [raised |-> TRUE, matches |-> <<>>]
             ELSE IF p.kind = "skip" THEN ParseEvents(events, i + 1, acc)
             ELSE ParseEvents(events, i + 1, Append(acc, Val(p.match)))

\* Lines 65-91 applied to the value get_json returned.  A schedule body is
\* [shape |-> "empty" | "obj", events |-> [t, items]].
ParseSchedule(data) ==
    IF IsNone(data) \/ Val(data).shape = "empty"
           \/ Val(data).events.t = "absent"
        THEN [raised |-> FALSE, matches |-> <<>>]           \* lines 65-66
    ELSE IF Val(data).events.t # "list"
        THEN [raised |-> TRUE, matches |-> <<>>]            \* line 69
    ELSE ParseEvents(Val(data).events.items, 1, <<>>)

\* Every outcome of one get_scheduled_events call.
get_scheduled_events(bodies) ==
    {[attempts |-> Attempts(r.log), fetched |-> ~IsNone(r.result),
      raised |-> ParseSchedule(r.result).raised,
      matches |-> ParseSchedule(r.result).matches] :
        r \in get_json(DefaultRetries, DefaultSleep, bodies)}

---------------------------------------------------------------------------
(* Fractions standing for Python floats. *)
RECURSIVE GCD(_, _)
GCD(a, b) == IF b = 0 THEN a ELSE GCD(b, a % b)

Abs(x) == IF x < 0 THEN -x ELSE x

\* n / d for d > 0, in lowest terms.
Frac(n, d) == LET g == GCD(Abs(n), d) IN [n |-> n \div g, d |-> d \div g]

FracAdd(a, b) == Frac(a.n * b.d + b.n * a.d, a.d * b.d)

---------------------------------------------------------------------------
(* TeamStats.goals_per_match, lines 21-25. *)
\* Mutant: floor division, goals_scored // matches_played.
goals_per_match_FloorDiv(ts) ==
    IF ts.matches_played.t # "num"
        THEN [raised |-> TRUE, val |-> None]
    ELSE IF ts.matches_played.n <= 0
        THEN [raised |-> FALSE, val |-> None]
    ELSE IF ts.goals_scored.t # "num"
        THEN [raised |-> TRUE, val |-> None]
    ELSE [raised |-> FALSE,
          val |-> Some(Frac(ts.goals_scored.n \div ts.matches_played.n, 1))]

\* [raised, val]: comparing or dividing a value that is not a number raises
\* TypeError; otherwise val is the Optional[float] returned.
goals_per_match(ts) ==
    IF ts.matches_played.t # "num"
        THEN [raised |-> TRUE, val |-> None]                \* line 23
    ELSE IF ts.matches_played.n <= 0
        THEN [raised |-> FALSE, val |-> None]               \* line 24
    ELSE IF ts.goals_scored.t # "num"
        THEN [raised |-> TRUE, val |-> None]                \* line 25
    ELSE [raised |-> FALSE,
          val |-> Some(Frac(ts.goals_scored.n, ts.matches_played.n))]

---------------------------------------------------------------------------
(* compute_expected_goals_for_matches, lines 125-160. *)
KeyHome(m) == <<m.home_team_id, m.season_id>>   \* line 130
KeyAway(m) == <<m.away_team_id, m.season_id>>   \* line 131

\* Mutant: a cached absence counts as not cached, `not stats_cache.get(key)`.
NotCached_RefetchAbsent(cache, key) ==
    key \notin DOMAIN cache \/ IsNone(cache[key])

\* `key not in stats_cache` (lines 133 and 137)
NotCached(cache, key) == key \notin DOMAIN cache

\* stats_cache[key] = value
CachePut(cache, key, value) ==
    [k \in DOMAIN cache \cup {key} |-> IF k = key THEN value ELSE cache[k]]

\* home_stats.goals_per_match if home_stats else None (lines 144-145)
ExpOf(stats) ==
    IF IsNone(stats) THEN [raised |-> FALSE, val |-> None]
    ELSE goals_per_match(Val(stats))

\* line 147
JointOf(exp_home, exp_away) ==
    IF ~IsNone(exp_home) /\ ~IsNone(exp_away)
    THEN Some(FracAdd(Val(exp_home), Val(exp_away)))
    ELSE None

\* lines 149-158
MatchWithExpectedGoals(m, home_stats, away_stats) ==
    [match |-> m,
     home_stats |-> home_stats,
     away_stats |-> away_stats,
     exp_goals_home |-> ExpOf(home_stats).val,
     exp_goals_away |-> ExpOf(away_stats).val,
     joint_expected_goals |-> JointOf(ExpOf(home_stats).val,
                                      ExpOf(away_stats).val)]

\* lines 144-145 raise for these statistics
ExpRaises(home_stats, away_stats) ==
    ExpOf(home_stats).raised \/ ExpOf(away_stats).raised

---------------------------------------------------------------------------
(* Exporters, lines 163-221. *)
CsvHeader == <<"Home Team", "Away Team", "Tournament",
               "Expected Goals Home", "Expected Goals Away",
               "Joint Expected Goals", "Home Goals Scored",
               "Home Matches Played", "Away Goals Scored",
               "Away Matches Played">>

EmptyCell == [k |-> "empty", s |-> "", a |-> 0, b |-> 0]
TextCell(v) == [k |-> "text", s |-> v.t, a |-> v.n, b |-> 0]

\* f"{x:.2f}" for x >= 0: the digits before and after the decimal point,
\* rounded to the nearest hundredth.
Fixed2(x) ==
    LET h == (200 * x.n + x.d) \div (2 * x.d)
    IN  [k |-> "fixed2", s |-> "", a |-> h \div 100, b |-> h % 100]

\* bool(x) of an Optional[float]: None and 0.0 are falsy.
FloatTruthy(x) == ~IsNone(x) /\ Val(x).n # 0

\* Mutant: the cell is filled whenever the value is defined.
ExpCell_IfDefined(x) == IF ~IsNone(x) THEN Fixed2(Val(x)) ELSE EmptyCell

\* f"{x:.2f}" if x else ""  (lines 189-190)
ExpCell(x) == IF FloatTruthy(x) THEN Fixed2(Val(x)) ELSE EmptyCell

\* m.home_stats.goals_scored if m.home_stats else ""  (lines 192-195)
StatCell(stats, field) ==
    IF IsNone(stats) THEN EmptyCell ELSE TextCell(Val(stats)[field])

\* lines 185-196
CsvRow(m) ==
    <<TextCell(m.match.home_team_name),
      TextCell(m.match.away_team_name),
      TextCell(m.match.tournament_name),
      ExpCell(m.exp_goals_home),
      ExpCell(m.exp_goals_away),
      Fixed2(Val(m.joint_expected_goals)),
      StatCell(m.home_stats, "goals_scored"),
      StatCell(m.home_stats, "matches_played"),
      StatCell(m.away_stats, "goals_scored"),
      StatCell(m.away_stats, "matches_played")>>

\* Mutant: a truthiness test, `if not m.joint_expected_goals: continue`.
CsvSkips_Falsy(m) ==
    IsNone(m.joint_expected_goals) \/ Val(m.joint_expected_goals).n = 0

\* `if m.joint_expected_goals is None: continue` (lines 182-183)
CsvSkips(m) == IsNone(m.joint_expected_goals)

RECURSIVE CsvRows(_)
CsvRows(ms) ==
    IF ms = <<>> THEN <<>>
    ELSE IF CsvSkips(Head(ms)) THEN CsvRows(Tail(ms))
    ELSE <<CsvRow(Head(ms))>> \o CsvRows(Tail(ms))

\* The file export_to_csv writes.
export_to_csv(ms) == [header |-> CsvHeader, rows |-> CsvRows(ms)]

\* m.home_stats.goals_scored if m.home_stats else None (lines 214-217)
StatJson(stats, field) ==
    IF IsNone(stats) THEN None ELSE Some(Val(stats)[field])

\* lines 207-218
JsonObject(m) ==
    [home_team |-> m.match.home_team_name,
     away_team |-> m.match.away_team_name,
     tournament |-> m.match.tournament_name,
     exp_goals_home |-> m.exp_goals_home,
     exp_goals_away |-> m.exp_goals_away,
     joint_expected_goals |-> m.joint_expected_goals,
     home_goals_scored |-> StatJson(m.home_stats, "goals_scored"),
     home_matches_played |-> StatJson(m.home_stats, "matches_played"),
     away_goals_scored |-> StatJson(m.away_stats, "goals_scored"),
     away_matches_played |-> StatJson(m.away_stats, "matches_played")]

\* `if m.joint_expected_goals is None: continue` (lines 204-205)
JsonSkips(m) == IsNone(m.joint_expected_goals)

RECURSIVE JsonObjects(_)
JsonObjects(ms) ==
    IF ms = <<>> THEN <<>>
    ELSE IF JsonSkips(Head(ms)) THEN JsonObjects(Tail(ms))
    ELSE <<JsonObject(Head(ms))>> \o JsonObjects(Tail(ms))

\* The array export_to_json dumps.
export_to_json(ms) == JsonObjects(ms)

---------------------------------------------------------------------------
(* What the upstream can answer. *)

\* Statistics records for the alias resolution: one chain of three fields
\* takes every combination of values while the other stays simple.
FieldVals == {Absent, Null, Str} \cup {Num(k) : k \in 0..MaxField}
GoalFieldSet == {"goalsScored", "goalsFor", "scored"}
PlayedFieldSet == {"matchesPlayed", "played", "games"}
SimpleChains(names) ==
    {[f \in names |-> Absent]}
    \cup {[f \in names |-> IF f = g THEN Num(1) ELSE Absent] : g \in names}
StatRecord(goals, played) ==
    [f \in StatFieldNames |-> IF f \in GoalFieldSet THEN goals[f] ELSE played[f]]
StatRecords ==
    {StatRecord(g, p) : g \in [GoalFieldSet -> FieldVals],
                        p \in SimpleChains(PlayedFieldSet)}
    \cup
    {StatRecord(g, p) : g \in SimpleChains(GoalFieldSet),
                        p \in [PlayedFieldSet -> FieldVals]}

StatsObj(rec) == [t |-> "obj", f |-> rec]
StatsOther(t) == [t |-> t, f |-> NoFields]
TeamObj(name) == [t |-> "obj", name |-> name]
TeamOther(t) == [t |-> t, name |-> Absent]
StatsBody(shape, statistics, team) ==
    [shape |-> shape, statistics |-> statistics, team |-> team]

TeamShapesOfBody ==
    {TeamOther("absent"), TeamOther("null"), TeamOther("nonrec"),
     TeamObj(Absent), TeamObj(Null), TeamObj(GivenName(1))}

\* Bodies of the statistics endpoint, well formed and malformed.
StatsBodiesWide ==
    {StatsBody("obj", StatsObj(r), TeamObj(GivenName(1))) : r \in StatRecords}
    \cup
    {StatsBody("obj", st, tm) :
        st \in {StatsOther("absent"), StatsOther("null"), StatsOther("nonrec"),
                StatsObj(NoFields)},
        tm \in TeamShapesOfBody}
    \cup
    {StatsBody(sh, StatsObj(NoFields), TeamObj(GivenName(1))) :
        sh \in {"empty", "nondict"}}

\* Bodies the enrichment runs see: goals scored and matches played under
\* their first names, as numbers or, for three of them, as strings.
GoalsPlayed(g, p) ==
    StatsBody("obj",
              StatsObj([f \in StatFieldNames |->
                          IF f = "goalsScored" THEN g
                          ELSE IF f = "matchesPlayed" THEN p
                          ELSE Absent]),
              TeamOther("absent"))
StatsBodies ==
    {GoalsPlayed(Num(g), Num(p)) : g \in 0..MaxGoals, p \in (-1)..MaxPlayed}
    \cup {GoalsPlayed(Str, Num(1)), GoalsPlayed(Str, Num(0)),
          GoalsPlayed(Num(0), Str)}

\* Schedule entries.
SubAbsent == [t |-> "absent", id |-> Absent, name |-> Absent]
SubOther(t) == [t |-> t, id |-> Absent, name |-> Absent]
SubObj(id, name) == [t |-> "obj", id |-> id, name |-> name]
Event(id, ts, home, away, tournament, season) ==
    [shape |-> "obj", id |-> id, startTimestamp |-> ts, homeTeam |-> home,
     awayTeam |-> away, tournament |-> tournament, season |-> season]
NonRecordEvent ==
    [shape |-> "nonrec", id |-> Absent, startTimestamp |-> Absent,
     homeTeam |-> SubAbsent, awayTeam |-> SubAbsent,
     tournament |-> SubAbsent, season |-> SubAbsent]

GoodTeam(t) == SubObj(Num(t), GivenName(t))
GoodEvent(h, a, s) ==
    Event(Num(1), Num(0), GoodTeam(h), GoodTeam(a),
          SubObj(Absent, GivenName(0)), SubObj(Num(s), Absent))
GoodEvents == {GoodEvent(h, a, s) : h \in TeamIds, a \in TeamIds, s \in SeasonIds}

SeasonShapes ==
    {SubAbsent, SubOther("null"), SubOther("nonrec"),
     SubObj(Absent, Absent), SubObj(Null, Absent)}
    \cup {SubObj(Num(s), Absent) : s \in SeasonIds}
TeamShapes(t) ==
    {SubAbsent, SubOther("null"), SubOther("nonrec"),
     SubObj(Absent, GivenName(t)), SubObj(Num(t), Absent), GoodTeam(t)}
TournamentShapes ==
    {SubAbsent, SubOther("null"), SubObj(Absent, Absent),
     SubObj(Absent, GivenName(0))}

\* Entries with every combination of well-formed and malformed fields.
WildEvents ==
    {Event(id, Num(0), h, a, tn, se) :
        id \in {Absent, Num(1)},
        h \in TeamShapes(1), a \in TeamShapes(1) \cup {GoodTeam(2)},
        tn \in TournamentShapes, se \in SeasonShapes}
    \cup {NonRecordEvent}

\* A few entries to stand before and after a wild one.
SimpleEvents ==
    {GoodEvent(2, 1, 2),
     Event(Num(1), Absent, GoodTeam(1), GoodTeam(2), SubAbsent, SubAbsent),
     Event(Num(1), Absent, GoodTeam(1), GoodTeam(2), SubAbsent,
           SubObj(Num(1), Absent))}

SeqsUpTo(S, n) == UNION {[1..k -> S] : k \in 0..n}

SchedBody(events) == [shape |-> "obj", events |-> events]
EventsList(items) == [t |-> "list", items |-> items]
EventsOther(t) == [t |-> t, items |-> <<>>]

\* Bodies of the schedule endpoint that hold no list of entries.
SchedBodiesNoList ==
    {SchedBody(EventsOther("absent")), SchedBody(EventsOther("null")),
     [shape |-> "empty", events |-> EventsOther("absent")]}

\* Bodies of the schedule endpoint for a whole run of main: one entry.
MainEvents ==
    GoodEvents
    \cup {Event(Num(1), Num(0), GoodTeam(1), GoodTeam(2), SubAbsent, se) :
             se \in {SubAbsent, SubOther("null")}}
    \cup {Event(Num(1), Num(0), h, GoodTeam(2), SubAbsent, SubObj(Num(1), Absent)) :
             h \in {SubAbsent, SubOther("null")}}
SchedBodiesMain ==
    {SchedBody(EventsList(<<e>>)) : e \in MainEvents}
    \cup {SchedBody(EventsList(<<>>)), SchedBody(EventsOther("absent"))}

\* The matches the schedule retriever can hand to the enrichment loop.
MatchUniverse == {Val(ParseEvent(e).match) : e \in GoodEvents}
KeysOf(ms) == {KeyHome(ms[i]) : i \in 1..Len(ms)} \cup {KeyAway(ms[i]) : i \in 1..Len(ms)}
\* Lists of matches with no more distinct keys than there are teams.
MatchLists ==
    {ms \in SeqsUpTo(MatchUniverse, MaxMatches) :
        Cardinality(KeysOf(ms)) <= Cardinality(TeamIds)}

---------------------------------------------------------------------------
(* The state machine. *)
NoCalls == [k \in {} |-> [requests |-> 0, attempts |-> 0]]

\* Initial values of the variables an operation has not touched yet.
NoFetch ==
    /\ fetchArgs = [retries |-> DefaultRetries, sleep |-> DefaultSleep]
    /\ fetchRun = None
NoSchedule == sched = None /\ schedHttp = 0
NoStats == statsBody = None /\ teamStats = None
NoEnrichment ==
    /\ idx = 0
    /\ stats_cache = [k \in {} |-> None]
    /\ results = <<>>
    /\ calls = NoCalls
NoOutput ==
    /\ csvFile = None
    /\ jsonFile = None
    /\ written = <<>>
    /\ exitStatus = None

\* One get_json call, lines 50-59.
FetchCall ==
    /\ pc = "fetch"
    /\ \E r \in get_json(fetchArgs.retries, fetchArgs.sleep, SchedBodiesNoList) :
          fetchRun' = Some(r)
    /\ pc' = "fetched"
    /\ UNCHANGED <<hasDate, fetchArgs, schedBody, sched, statsBody, teamStats,
                   matches, idx, stats_cache, results, calls, schedHttp,
                   csvFile, jsonFile, written, exitStatus>>

\* One get_team_stats call, lines 93-122.
StatsCall ==
    /\ pc = "stats"
    /\ \E team_id \in TeamIds, season_id \in SeasonIds :
       \E o \in get_team_stats(team_id, season_id, {Val(statsBody)}) :
          teamStats' = Some(o)
    /\ pc' = "stats_done"
    /\ UNCHANGED <<hasDate, fetchArgs, fetchRun, schedBody, sched, statsBody,
                   matches, idx, stats_cache, results, calls, schedHttp,
                   csvFile, jsonFile, written, exitStatus>>

\* main, lines 225-229: the argument check.
MainStart ==
    /\ pc = "start"
    /\ IF hasDate
       THEN pc' = "schedule" /\ UNCHANGED exitStatus
       ELSE pc' = "exited" /\ exitStatus' = Some(1)         \* sys.exit(1)
    /\ UNCHANGED <<hasDate, fetchArgs, fetchRun, schedBody, sched, statsBody,
                   teamStats, matches, idx, stats_cache, results, calls,
                   schedHttp, csvFile, jsonFile, written>>

\* get_scheduled_events, lines 62-91 (called at line 231).  An exception
\* that leaves the function ends the run.
GetScheduledEvents ==
    /\ pc = "schedule"
    /\ \E o \in get_scheduled_events({Val(schedBody)}) :
          /\ sched' = Some(o)
          /\ schedHttp' = o.attempts
          /\ matches' = o.matches
          /\ IF o.raised
             THEN pc' = "raised" /\ exitStatus' = Some(1)
             ELSE pc' = "enrich" /\ UNCHANGED exitStatus
    /\ UNCHANGED <<hasDate, fetchArgs, fetchRun, schedBody, statsBody,
                   teamStats, idx, stats_cache, results, calls, csvFile,
                   jsonFile, written>>

\* ghost: the outcome of a lookup as the run records it, with the HTTP
\* attempts only when they are tracked
Recorded(o, track) == IF track THEN o ELSE [o EXCEPT !.attempts = 0]

\* The lookup at lines 133-135 or 137-139: {None} when the key is cached,
\* else the outcomes of the get_team_stats call.
Lookup(cache, team_id, season_id, track) ==
    IF NotCached(cache, <<team_id, season_id>>)
    THEN {Some(Recorded(o, track)) :
             o \in get_team_stats(team_id, season_id, StatsBodies)}
    ELSE {None}

AfterLookup(cache, key, o) ==
    IF IsNone(o) THEN cache ELSE CachePut(cache, key, Val(o).stats)

\* ghost: one more request for key, and its HTTP attempts
Counted(cs, key, o) ==
    IF IsNone(o) THEN cs
    ELSE LET old == IF key \in DOMAIN cs THEN cs[key]
                    ELSE [requests |-> 0, attempts |-> 0]
             new == [requests |-> old.requests + 1,
                     attempts |-> old.attempts + Val(o).attempts]
         IN  [k \in DOMAIN cs \cup {key} |-> IF k = key THEN new ELSE cs[k]]

\* One iteration of the loop at lines 129-158.  The pauses at lines 135 and
\* 139 change no state and are left out.
EnrichStep(track) ==
    /\ pc = "enrich"
    /\ idx < Len(matches)
    /\ LET m == matches[idx + 1] IN
       \E oh \in Lookup(stats_cache, m.home_team_id, m.season_id, track) :
       LET cache1 == AfterLookup(stats_cache, KeyHome(m), oh) IN
       \E oa \in Lookup(cache1, m.away_team_id, m.season_id, track) :
       LET cache2 == AfterLookup(cache1, KeyAway(m), oa)
           home_stats == cache2[KeyHome(m)]
           away_stats == cache2[KeyAway(m)]
       IN  /\ stats_cache' = cache2
           /\ calls' = Counted(Counted(calls, KeyHome(m), oh), KeyAway(m), oa)
           /\ IF ExpRaises(home_stats, away_stats)
              THEN /\ pc' = "raised"
                   /\ exitStatus' = Some(1)
                   /\ UNCHANGED <<results, idx>>
              ELSE /\ results' = Append(results,
                          MatchWithExpectedGoals(m, home_stats, away_stats))
                   /\ idx' = idx + 1
                   /\ UNCHANGED <<pc, exitStatus>>
    /\ UNCHANGED <<hasDate, fetchArgs, fetchRun, schedBody, sched, statsBody,
                   teamStats, matches, schedHttp, csvFile, jsonFile, written>>

\* `return results`, line 160.
ComputeReturn ==
    /\ pc = "enrich"
    /\ idx = Len(matches)
    /\ pc' = "csv"
    /\ UNCHANGED <<hasDate, fetchArgs, fetchRun, schedBody, sched, statsBody,
                   teamStats, matches, idx, stats_cache, results, calls,
                   schedHttp, csvFile, jsonFile, written, exitStatus>>

\* export_to_csv, lines 163-196 (called at line 234).
ExportCsv ==
    /\ pc = "csv"
    /\ csvFile' = Some(export_to_csv(results))
    /\ written' = Append(written, "csv")
    /\ pc' = "json"
    /\ UNCHANGED <<hasDate, fetchArgs, fetchRun, schedBody, sched, statsBody,
                   teamStats, matches, idx, stats_cache, results, calls,
                   schedHttp, jsonFile, exitStatus>>

\* export_to_json, lines 199-221 (called at line 235), then main returns.
ExportJson ==
    /\ pc = "json"
    /\ jsonFile' = Some(export_to_json(results))
    /\ written' = Append(written, "json")
    /\ pc' = "done"
    /\ exitStatus' = Some(0)
    /\ UNCHANGED <<hasDate, fetchArgs, fetchRun, schedBody, sched, statsBody,
                   teamStats, matches, idx, stats_cache, results, calls,
                   schedHttp, csvFile>>

---------------------------------------------------------------------------
(* Specifications. *)

\* A run of main against an upstream holding a one-entry schedule.
Init ==
    /\ pc = "start"
    /\ hasDate \in BOOLEAN
    /\ schedBody \in {Some(b) : b \in SchedBodiesMain}
    /\ matches = <<>>
    /\ NoFetch /\ NoSchedule /\ NoStats /\ NoEnrichment /\ NoOutput

Next ==
    \/ MainStart
    \/ GetScheduledEvents
    \/ EnrichStep(TRUE)
    \/ ComputeReturn
    \/ ExportCsv
    \/ ExportJson

Spec == Init /\ [][Next]_vars


\* get_json on its own, for every retries and sleep argument.
Delays == {0, DefaultSleep}
InitFetch ==
    /\ pc = "fetch"
    /\ hasDate = TRUE
    /\ fetchArgs \in [retries : 0..MaxRetries, sleep : Delays]
    /\ fetchRun = None
    /\ schedBody = None
    /\ matches = <<>>
    /\ NoSchedule /\ NoStats /\ NoEnrichment /\ NoOutput

NextFetch == FetchCall

SpecFetch == InitFetch /\ [][NextFetch]_vars

\* get_team_stats on its own, for every statistics body.
InitStats ==
    /\ pc = "stats"
    /\ hasDate = TRUE
    /\ statsBody \in {Some(b) : b \in StatsBodiesWide}
    /\ teamStats = None
    /\ schedBody = None
    /\ matches = <<>>
    /\ NoFetch /\ NoSchedule /\ NoEnrichment /\ NoOutput

NextStats == StatsCall

SpecStats == InitStats /\ [][NextStats]_vars

\* get_scheduled_events on its own: the bodies without a list, and the lists
\* of at most MaxEvents entries of which at most one is wild.
InitSchedule ==
    /\ pc = "schedule"
    /\ hasDate = TRUE
    /\ \/ schedBody \in {Some(b) : b \in SchedBodiesNoList}
       \/ \E l \in SeqsUpTo(SimpleEvents, MaxEvents) :
             \/ schedBody = Some(SchedBody(EventsList(l)))
             \/ \E i \in 1..Len(l), w \in WildEvents :
                   schedBody = Some(SchedBody(EventsList([l EXCEPT ![i] = w])))
    /\ matches = <<>>
    /\ NoFetch /\ NoSchedule /\ NoStats /\ NoEnrichment /\ NoOutput

NextSchedule == GetScheduledEvents

SpecSchedule == InitSchedule /\ [][NextSchedule]_vars

\* compute_expected_goals_for_matches and the exporters, for every list of
\* matches; the ghost counts requests only.
InitEnrich ==
    /\ pc = "enrich"
    /\ hasDate = TRUE
    /\ schedBody = None
    /\ matches \in MatchLists
    /\ NoFetch /\ NoSchedule /\ NoStats /\ NoEnrichment /\ NoOutput

NextEnrich ==
    \/ EnrichStep(FALSE)
    \/ ComputeReturn
    \/ ExportCsv
    \/ ExportJson

SpecEnrich == InitEnrich /\ [][NextEnrich]_vars

---------------------------------------------------------------------------
(* Properties. *)

\* C1: within one call of compute_expected_goals_for_matches, get_team_stats
\* is requested at most once for each (team id, season id) key, and every
\* cached key, absent statistics included, was requested exactly once.
C1_OneRequestPerKey ==
    /\ DOMAIN calls = DOMAIN stats_cache
    /\ \A k \in DOMAIN calls : calls[k].requests = 1

\* C1 witness: two matches processed, the home and away team of the first
\* share a key whose lookup returned absence, and the second match uses the
\* key again.
C1_Witness ==
    /\ idx = 2
    /\ KeyHome(matches[1]) = KeyAway(matches[1])
    /\ KeyHome(matches[1]) \in {KeyHome(matches[2]), KeyAway(matches[2])}
    /\ IsNone(stats_cache[KeyHome(matches[1])])
    /\ calls[KeyHome(matches[1])].requests = 1

\* x is the float goals_scored / matches_played
IsQuotient(x, stats) ==
    x.n * stats.matches_played.n = stats.goals_scored.n * x.d

\* the per-team value is defined exactly when the statistics are present
\* with matches played > 0, and is then goals scored / matches played
PerTeamOk(exp, stats, team_id, season_id) ==
    /\ ~IsNone(exp) <=>
          /\ ~IsNone(stats)
          /\ Val(stats).matches_played.t = "num"
          /\ Val(stats).matches_played.n > 0
    /\ ~IsNone(stats) =>
          Val(stats).team_id = team_id /\ Val(stats).season_id = season_id
    /\ ~IsNone(exp) => IsQuotient(Val(exp), Val(stats))

\* j is the float h + a
IsSum(j, h, a) == j.n * h.d * a.d = (h.n * a.d + a.n * h.d) * j.d

\* C2: in every EnrichedMatch produced, a per-team expected-goals value is
\* defined exactly when that team's statistics are present with matches
\* played > 0 and then equals goals scored / matches played; the joint value
\* is defined iff both per-team values are, and then equals their sum.
C2_ExpectedGoals ==
    \A i \in 1..Len(results) :
        LET r == results[i] IN
        /\ PerTeamOk(r.exp_goals_home, r.home_stats,
                     r.match.home_team_id, r.match.season_id)
        /\ PerTeamOk(r.exp_goals_away, r.away_stats,
                     r.match.away_team_id, r.match.season_id)
        /\ ~IsNone(r.joint_expected_goals) <=>
              ~IsNone(r.exp_goals_home) /\ ~IsNone(r.exp_goals_away)
        /\ ~IsNone(r.joint_expected_goals) =>
              IsSum(Val(r.joint_expected_goals), Val(r.exp_goals_home),
                    Val(r.exp_goals_away))

\* C2 witness: a first result with per-team values 1/2 and 1/2 and joint
\* value 1, and a second whose statistics are present with no match played,
\* so that its values are undefined.
C2_Witness ==
    /\ Len(results) = 2
    /\ results[1].exp_goals_home = Some([n |-> 1, d |-> 2])
    /\ results[1].exp_goals_away = Some([n |-> 1, d |-> 2])
    /\ results[1].joint_expected_goals = Some([n |-> 1, d |-> 1])
    /\ ~IsNone(results[2].home_stats)
    /\ IsNone(results[2].exp_goals_home)
    /\ IsNone(results[2].joint_expected_goals)

GetIndexes(log) == {i \in 1..Len(log) : log[i].ev = "get"}

\* C3: when every attempt of a get_json call fails, the call makes exactly
\* `retries` attempts, one sleep of the configured delay lies between each
\* attempt and the next, and it returns None.
C3_RetriesThenAbsence ==
    (~IsNone(fetchRun) /\ AllFailed(Val(fetchRun).log)) =>
        LET log == Val(fetchRun).log IN
        /\ Attempts(log) = fetchArgs.retries
        /\ IsNone(Val(fetchRun).result)
        /\ \A i \in GetIndexes(log) :
              (\E j \in GetIndexes(log) : j > i) =>
                  /\ log[i + 1] = SleepEv(fetchArgs.sleep)
                  /\ i + 2 \in GetIndexes(log)

\* C3 witness: a call with the default arguments whose three attempts
\* failed, by a status and by a network error.
C3_Witness ==
    /\ ~IsNone(fetchRun)
    /\ fetchArgs = [retries |-> DefaultRetries, sleep |-> DefaultSleep]
    /\ AllFailed(Val(fetchRun).log)
    /\ Attempts(Val(fetchRun).log) = DefaultRetries
    /\ \E i, j \in GetIndexes(Val(fetchRun).log) :
          Val(fetchRun).log[i].out = "status" /\ Val(fetchRun).log[j].out = "neterr"
    /\ IsNone(Val(fetchRun).result)

JointDefined(m) == m.joint_expected_goals # None
WithJoint(ms) == SelectSeq(ms, JointDefined)

\* C4: both exporters write exactly the matches whose joint expected goals
\* is defined, in input order.
C4_ExportsJointDefined ==
    /\ ~IsNone(csvFile) =>
          LET rows == Val(csvFile).rows
              F == WithJoint(results)
          IN  /\ Len(rows) = Len(F)
              /\ \A i \in 1..Len(F) :
                    /\ rows[i][1] = TextCell(F[i].match.home_team_name)
                    /\ rows[i][2] = TextCell(F[i].match.away_team_name)
                    /\ rows[i][7] = TextCell(Val(F[i].home_stats).goals_scored)
                    /\ rows[i][10] = TextCell(Val(F[i].away_stats).matches_played)
    /\ ~IsNone(jsonFile) =>
          LET objs == Val(jsonFile)
              F == WithJoint(results)
          IN  /\ Len(objs) = Len(F)
              /\ \A i \in 1..Len(F) :
                    /\ objs[i].home_team = F[i].match.home_team_name
                    /\ objs[i].away_team = F[i].match.away_team_name
                    /\ objs[i].joint_expected_goals = F[i].joint_expected_goals

\* C4 witness: both files written from two results, the first without a
\* joint value and the second with a joint value of 0.0; each file holds
\* the second match only.
C4_Witness ==
    /\ pc = "done"
    /\ Len(results) = 2
    /\ IsNone(results[1].joint_expected_goals)
    /\ results[2].joint_expected_goals = Some([n |-> 0, d |-> 1])
    /\ Len(Val(csvFile).rows) = 1
    /\ Len(Val(jsonFile)) = 1
    /\ Val(jsonFile)[1].home_team = results[2].match.home_team_name

\* the cell shows x to two decimal places: 100 * a + b is the number of
\* hundredths nearest to x, and b is the two digits after the point
TwoDecimals(cell, x) ==
    /\ cell.k = "fixed2"
    /\ cell.b \in 0..99
    /\ LET h == 100 * cell.a + cell.b
       IN  /\ 200 * x.n - 2 * h * x.d <= x.d
           /\ 2 * h * x.d - 200 * x.n <= x.d

PerTeamCellOk(cell, x) ==
    IF Val(x).n = 0 THEN cell = EmptyCell ELSE TwoDecimals(cell, Val(x))

\* C9: in every CSV row a per-team expected-goals value of 0.0 is an empty
\* cell, every other per-team value and the joint value show two decimal
\* places, and the goals-scored and matches-played cells are filled.
C9_CsvZeroIsEmpty ==
    ~IsNone(csvFile) =>
        LET rows == Val(csvFile).rows
            F == WithJoint(results)
        IN  \A i \in 1..Len(rows) :
                /\ PerTeamCellOk(rows[i][4], F[i].exp_goals_home)
                /\ PerTeamCellOk(rows[i][5], F[i].exp_goals_away)
                /\ TwoDecimals(rows[i][6], Val(F[i].joint_expected_goals))
                /\ \A c \in 7..10 : rows[i][c].k = "text"

\* C9 witness: a row whose home cell is empty for a value of 0.0 beside an
\* away cell "0.50", a joint cell "0.50" and filled statistics cells.
C9_Witness ==
    /\ ~IsNone(csvFile)
    /\ Len(Val(csvFile).rows) >= 1
    /\ results[1].exp_goals_home = Some([n |-> 0, d |-> 1])
    /\ Val(csvFile).rows[1][4] = EmptyCell
    /\ Val(csvFile).rows[1][5] = [k |-> "fixed2", s |-> "", a |-> 0, b |-> 50]
    /\ Val(csvFile).rows[1][6] = [k |-> "fixed2", s |-> "", a |-> 0, b |-> 50]
    /\ Val(csvFile).rows[1][7] = TextCell(Num(0))
    /\ Val(csvFile).rows[1][8].k = "text"


\* The claim's reading of a schedule entry.
SeasonIdAbsent(ev) ==
    ev.shape = "nonrec" \/ ev.season.t # "obj" \/ ev.season.id.t # "num"
TeamFieldMissing(team) ==
    team.t # "obj" \/ team.id.t = "absent" \/ team.name.t = "absent"
RequiredFieldMissing(ev) ==
    \/ ev.shape = "nonrec"
    \/ ev.id.t = "absent"
    \/ TeamFieldMissing(ev.homeTeam)
    \/ TeamFieldMissing(ev.awayTeam)
Kept(ev) == ~SeasonIdAbsent(ev) /\ ~RequiredFieldMissing(ev)
EntryIds(ev) == <<ev.id.n, ev.homeTeam.id.n, ev.awayTeam.id.n, ev.season.id.n>>
MatchIds(m) == <<m.event_id, m.home_team_id, m.away_team_id, m.season_id>>
KeptIds(events) ==
    LET kept == SelectSeq(events, Kept)
    IN  [i \in 1..Len(kept) |-> EntryIds(kept[i])]
ReturnedIds(ms) == [i \in 1..Len(ms) |-> MatchIds(ms[i])]
GotEventList ==
    /\ ~IsNone(sched)
    /\ Val(sched).fetched
    /\ Val(schedBody).shape = "obj"
    /\ Val(schedBody).events.t = "list"

AllRecords(events) == \A i \in 1..Len(events) : events[i].shape = "obj"

\* C5: for every schedule response, get_scheduled_events returns the entries
\* that have a season identifier and every required field, in response
\* order, and no other entry; stated for the responses whose entries are
\* all records.
C5_ScheduleFiltering ==
    (GotEventList /\ AllRecords(Val(schedBody).events.items)) =>
        /\ ~Val(sched).raised
        /\ ReturnedIds(matches) = KeptIds(Val(schedBody).events.items)

\* The filtering C5 describes holds of every call that returns.
C5_UnlessRaised ==
    (GotEventList /\ ~Val(sched).raised) =>
        ReturnedIds(matches) = KeptIds(Val(schedBody).events.items)

\* C6: no error is raised to the caller: a run of main never ends in an
\* uncaught exception, whatever the upstream answers.
C6_NoErrorRaised == pc # "raised"

\* the value of the first field of `names` present in the record, else 0
FirstPresent(rec, names) ==
    IF \E i \in 1..Len(names) : rec[names[i]].t # "absent"
    THEN rec[names[CHOOSE i \in 1..Len(names) :
                      /\ rec[names[i]].t # "absent"
                      /\ \A j \in 1..(i - 1) : rec[names[j]].t = "absent"]]
    ELSE Num(0)

\* every field of the record is absent or a number
NumericRecord(rec) == \A f \in DOMAIN rec : rec[f].t \in {"absent", "num"}

\* C7: get_team_stats resolves goals scored and matches played to the value
\* of the first field present in priority order, and to zero only when none
\* of the fields is present; stated for the records whose fields are
\* numbers, a field holding 0 included.
C7_FirstPresentWins ==
    (/\ ~IsNone(teamStats)
     /\ ~IsNone(Val(teamStats).stats)
     /\ NumericRecord(StatisticsOf(Val(statsBody)))) =>
        LET rec == StatisticsOf(Val(statsBody))
            ts == Val(Val(teamStats).stats)
        IN  /\ ts.goals_scored = FirstPresent(rec, GoalFields)
            /\ ts.matches_played = FirstPresent(rec, PlayedFields)

\* C8: compute_expected_goals_for_matches returns one EnrichedMatch per
\* input match, in input order.
C8_OneResultPerMatch ==
    /\ pc # "raised"
    /\ pc \in {"csv", "json", "done"} =>
          /\ Len(results) = Len(matches)
          /\ \A i \in 1..Len(matches) : results[i].match = matches[i]

\* The shape C8 describes holds of every call that returns, and of the
\* results built so far while the loop runs.
C8_UnlessRaised ==
    /\ Len(results) = idx
    /\ \A i \in 1..idx : results[i].match = matches[i]
    /\ pc \in {"csv", "json", "done"} => idx = Len(matches)

Terminated == pc \in {"done", "raised", "exited"}

\* C10: a run of main with a date argument ends with both files written,
\* CSV before JSON, after at most 3 HTTP attempts for the schedule and at
\* most 3 per key, the files being empty of matches when the schedule
\* fetch failed; without a date it exits with status 1 before any request
\* or file.
C10_MainCompletes ==
    /\ (~hasDate /\ pc # "start") =>
          /\ pc = "exited"
          /\ exitStatus = Some(1)
          /\ schedHttp = 0
          /\ DOMAIN calls = {}
          /\ IsNone(csvFile) /\ IsNone(jsonFile)
    /\ hasDate =>
          /\ Terminated => pc = "done"
          /\ pc = "done" =>
                /\ written = <<"csv", "json">>
                /\ ~IsNone(csvFile) /\ ~IsNone(jsonFile)
          /\ schedHttp <= DefaultRetries
          /\ \A k \in DOMAIN calls : calls[k].attempts <= DefaultRetries
          /\ (pc = "done" /\ ~Val(sched).fetched) =>
                /\ Val(csvFile) = [header |-> CsvHeader, rows |-> <<>>]
                /\ Val(jsonFile) = <<>>

\* What C10 describes holds of every run in which no exception escapes.
C10_UnlessRaised ==
    /\ (~hasDate /\ pc # "start") =>
          /\ pc = "exited"
          /\ exitStatus = Some(1)
          /\ schedHttp = 0
          /\ DOMAIN calls = {}
          /\ IsNone(csvFile) /\ IsNone(jsonFile)
    /\ hasDate =>
          /\ Terminated => pc \in {"done", "raised"}
          /\ ~Terminated => ENABLED Next
          /\ pc = "done" =>
                /\ written = <<"csv", "json">>
                /\ ~IsNone(csvFile) /\ ~IsNone(jsonFile)
          /\ schedHttp <= DefaultRetries
          /\ \A k \in DOMAIN calls : calls[k].attempts <= DefaultRetries
          /\ (pc = "done" /\ ~Val(sched).fetched) =>
                /\ Val(csvFile) = [header |-> CsvHeader, rows |-> <<>>]
                /\ Val(jsonFile) = <<>>

===========================================================================
